---- MODULE Spec2Model ----
(***************************************************************************)
(* terminus-lifecycle: the beacon tracker (BeaconManager), the readiness   *)
(* and shutdown flags of LifecycleServer, and the shutdown sequence that   *)
(* createTerminus drives through the beforeShutdown and onSignal callbacks *)
(* registered by LifecycleServer.init.                                     *)
(*                                                                         *)
(* One JavaScript turn (a synchronous run of code up to the next await) is *)
(* one step.  A promise that has been resolved and the continuation that   *)
(* awaits it are distinct steps: other turns may run in between.           *)
(***************************************************************************)
EXTENDS Integers, Sequences, FiniteSets, TLC

\* ------------------------------------------------------------------ bounds
MaxBeacons == 3      \* createBeacon calls in one run
MaxDies == 4         \* die() calls in one run (several may hit one handle)
MaxWaiters == 2      \* waitForBeacons calls made by the application
MaxPromises == 3     \* length of config.onReadyPromises
MaxReadyCalls == 2   \* setReady(true) calls in one run
MaxTriggers == 2     \* shutdown signals delivered to the process
MaxPeriod == 3       \* largest readinessPeriodSeconds tried for the grace delay
MaxThreshold == 3    \* largest readinessFailureThreshold tried for the grace delay
FrameBeacons == 1    \* createBeacon calls when all operations are composed
FrameDies == 1       \* die() calls when all operations are composed
FrameWaiters == 1    \* application waitForBeacons calls when all are composed
FrameReadyCalls == 1 \* setReady(true) calls when all operations are composed
FrameTriggers == 1   \* shutdown signals when all operations are composed

\* ------------------------------------------------------- program constants
DefaultPeriodSeconds == 10
DefaultFailureThreshold == 3
MsPerSecond == 1000
FallbackDelayMs == 5000

\* The two BeaconManager instances of the package: the one each
\* LifecycleServer constructs for itself and the exported singleton.
Trackers == {"lifecycle", "singleton"}

VARIABLES
    beacons,         \* BeaconManager.beacons, per instance: sequence of beacon ids
    owner,           \* owner[b]: the instance whose createBeacon made handle b
    dieCalls,        \* dieCalls[b]: how many times handle b's die() was called
    dying,           \* die() calls suspended on their setImmediate
    waiters,         \* the promises returned by waitForBeacons, in call order
    listeners,       \* eventEmitter listeners of 'beaconStateChange', per instance
    isReady,         \* LifecycleServer.isReady
    isShuttingDown,  \* LifecycleServer.isShuttingDown
    promises,        \* LifecycleServer.promises: state of each startup promise
    readyCalls,      \* the setReady(true) calls, in call order
    config,          \* the LifecycleConfig given to init, and KUBERNETES_SERVICE_HOST
    state,           \* the state object terminus hands to the health checks
    pc,              \* where the shutdown sequence stands
    timer,           \* the delay of the pending setTimeout of beforeShutdown, or -1
    cleanupCalls,    \* how many times config.onShutdown was invoked
    triggers,        \* shutdown signals delivered so far
    exitCode,        \* the code the process exited with, or -1
    onShutdownResult, \* how the promise of config.onShutdown settled, or "none"
    emits,           \* eventEmitter.emit('beaconStateChange') calls so far
    probe,           \* the last probe request: its path, what the handler read
                     \* (state.isShuttingDown, getReady()) and its answer
    lastSetReady     \* the argument of the most recently issued setReady call,
                     \* or "none"

beaconVars == <<beacons, owner, dieCalls, dying, waiters, listeners, emits>>
readyVars == <<isReady, promises, readyCalls, lastSetReady>>
shutdownVars == <<state, pc, timer, cleanupCalls, triggers, exitCode,
                  onShutdownResult>>
vars == <<beacons, owner, dieCalls, dying, waiters, listeners, isReady,
          isShuttingDown, promises, readyCalls, config, state, pc, timer,
          cleanupCalls, triggers, exitCode, onShutdownResult, emits, probe,
          lastSetReady>>

\* ----------------------------------------------------------------- helpers
Min(a, b) == IF a < b THEN a ELSE b
Max(a, b) == IF a > b THEN a ELSE b

\* Array.prototype.indexOf: the 0-based index of the first occurrence, or -1.
IndexOf(s, b) ==
    IF \E i \in 1..Len(s) : s[i] = b
    THEN (CHOOSE i \in 1..Len(s) : s[i] = b /\ \A j \in 1..(i - 1) : s[j] # b) - 1
    ELSE -1

\* Array.prototype.splice(start, 1): a negative start counts from the end
\* (and is clamped at 0), a start past the end is clamped to the length, and
\* at most the elements that exist are deleted.
Splice1(s, start) ==
    LET n == Len(s)
        from == IF start < 0 THEN Max(n + start, 0) ELSE Min(start, n)
        cnt == Min(1, n - from)
    IN  [i \in 1..(n - cnt) |-> IF i <= from THEN s[i] ELSE s[i + cnt]]

\* getBeaconsCount()
getBeaconsCount(t) == Len(beacons[t])

\* The process is gone once terminus has called process.exit.
Running == pc # "complete"

\* ------------------------------------------------------------------- Init
DefaultConfig ==
    [isKubernetes |-> FALSE, hasOnShutdown |-> FALSE,
     readinessPeriodSeconds |-> DefaultPeriodSeconds,
     readinessFailureThreshold |-> DefaultFailureThreshold]

\* The configurations tried: with and without KUBERNETES_SERVICE_HOST, with
\* and without onShutdown, the default readiness period and a period of 0.
Configs ==
    [isKubernetes : BOOLEAN, hasOnShutdown : BOOLEAN,
     readinessPeriodSeconds : {0, DefaultPeriodSeconds},
     readinessFailureThreshold : {DefaultFailureThreshold}]

InitBeaconManager ==
    /\ beacons = [t \in Trackers |-> <<>>]
    /\ owner = <<>>
    /\ dieCalls = <<>>
    /\ dying = 0
    /\ waiters = <<>>
    /\ listeners = [t \in Trackers |-> {}]
    /\ emits = 0

InitLifecycle(nPromises) ==
    /\ isReady = FALSE
    /\ isShuttingDown = FALSE
    /\ promises = [i \in 1..nPromises |-> "pending"]
    /\ readyCalls = <<>>
    /\ lastSetReady = "none"

InitTerminus ==
    /\ state = [isShuttingDown |-> FALSE]
    /\ pc = "idle"
    /\ timer = -1
    /\ cleanupCalls = 0
    /\ triggers = 0
    /\ exitCode = -1
    /\ onShutdownResult = "none"
    /\ probe = [path |-> "none", sawShuttingDown |-> FALSE, sawReady |-> FALSE,
                ok |-> FALSE, reason |-> "none"]

\* --------------------------------------------------------- BeaconManager
\* waitForBeacons, first test: `this.beacons.length === 0`.
NoBeacons(bs) == Len(bs) = 0

\* A check() that would let one beacon through, which check() is compared with.
CheckResolvesOnOne(bs) == Len(bs) <= 1

\* check(), the listener of waitForBeacons: it resolves (and unsubscribes)
\* unless `this.beacons.length > 0`.
CheckResolves(bs) == ~(Len(bs) > 0)

\* The beacon that die() splices out of the array.
DieRemoves(bs, b) == Splice1(bs, IndexOf(bs, b))

\* eventEmitter.emit('beaconStateChange') on instance t whose array is now bs:
\* every subscribed check() runs in this same turn.
\* An emit that would not run the subscribed checks within the call.
EmitWaitersDeferred(t, bs) == waiters

EmitWaiters(t, bs) ==
    [w \in DOMAIN waiters |->
        IF w \in listeners[t] /\ CheckResolves(bs)
        THEN [waiters[w] EXCEPT !.st = "resolved"]
        ELSE waiters[w]]

\* A check that would resolve without `eventEmitter.off`.
EmitListenersKept(t, bs) == listeners

\* The listeners left after emit: check() unsubscribes itself when it resolves.
EmitListeners(t, bs) ==
    [listeners EXCEPT ![t] = {w \in @ : ~CheckResolves(bs)}]

\* The promise waitForBeacons returns on instance t, for caller `by`; n is
\* the beaconsCount the call saw (and logs).
NewWaiter(t, by) ==
    [t |-> t, by |-> by, n |-> Len(beacons[t]),
     st |-> IF NoBeacons(beacons[t]) \/ CheckResolves(beacons[t])
            THEN "resolved" ELSE "pending"]

\* waitForBeacons subscribes check only when it did not return early, and
\* check() unsubscribes itself when it resolves.
WaitListeners(t) ==
    IF NoBeacons(beacons[t]) \/ CheckResolves(beacons[t])
    THEN listeners
    ELSE [listeners EXCEPT ![t] = @ \cup {Len(waiters) + 1}]

\* An operation that would never emit, which the operations are compared with.
EmitCountNone(op) == 0

\* How many times an operation of BeaconManager calls
\* eventEmitter.emit('beaconStateChange'): die() once, createBeacon never.
EmitCount(op) == IF op = "die" THEN 1 ELSE 0

createBeacon(t) ==
    /\ Running
    /\ Len(owner) < MaxBeacons
    /\ emits' = emits + EmitCount("createBeacon")
    /\ beacons' = [beacons EXCEPT ![t] = Append(@, Len(owner) + 1)]
    /\ owner' = Append(owner, t)
    /\ dieCalls' = Append(dieCalls, 0)
    /\ UNCHANGED <<dying, waiters, listeners, isReady, isShuttingDown, promises,
                   readyCalls, config, state, pc, timer, cleanupCalls, triggers,
                   exitCode,
                   onShutdownResult, probe, lastSetReady>>

TotalDies == LET RECURSIVE Sum(_)
                 Sum(i) == IF i = 0 THEN 0 ELSE dieCalls[i] + Sum(i - 1)
             IN  Sum(Len(dieCalls))

\* die() up to its await: splice, emit, then suspend on setImmediate.
die(b) ==
    /\ Running
    /\ b \in DOMAIN owner
    /\ TotalDies < MaxDies
    /\ LET t == owner[b]
           bs == DieRemoves(beacons[t], b)
       IN  /\ beacons' = [beacons EXCEPT ![t] = bs]
           /\ waiters' = EmitWaiters(t, bs)
           /\ listeners' = EmitListeners(t, bs)
    /\ dieCalls' = [dieCalls EXCEPT ![b] = @ + 1]
    /\ dying' = dying + 1
    /\ emits' = emits + EmitCount("die")
    /\ UNCHANGED <<owner, isReady, isShuttingDown, promises, readyCalls, config,
                   state, pc, timer, cleanupCalls, triggers, exitCode,
                   onShutdownResult, probe, lastSetReady>>

\* setImmediate fires and one suspended die() completes.
dieResume ==
    /\ Running
    /\ dying > 0
    /\ dying' = dying - 1
    /\ UNCHANGED <<beacons, owner, dieCalls, waiters, listeners, isReady,
                   isShuttingDown, promises, readyCalls, config, state, pc, timer,
                   cleanupCalls, triggers, exitCode,
                   emits, onShutdownResult, probe, lastSetReady>>

AppWaiters == {w \in DOMAIN waiters : waiters[w].by = "app"}

\* waitForBeacons called by the application.
waitForBeacons(t) ==
    /\ Running
    /\ Cardinality(AppWaiters) < MaxWaiters
    /\ waiters' = Append(waiters, NewWaiter(t, "app"))
    /\ listeners' = WaitListeners(t)
    /\ UNCHANGED <<beacons, owner, dieCalls, dying, isReady, isShuttingDown,
                   promises, readyCalls, config, state, pc, timer, cleanupCalls,
                   triggers, exitCode,
                   emits, onShutdownResult, probe, lastSetReady>>

\* One BeaconManager on its own.
InitBeacons ==
    /\ InitBeaconManager
    /\ InitLifecycle(0)
    /\ InitTerminus
    /\ config = DefaultConfig

NextBeacons ==
    \/ createBeacon("lifecycle")
    \/ \E b \in 1..MaxBeacons : die(b)
    \/ dieResume
    \/ waitForBeacons("lifecycle")

SpecBeacons == InitBeacons /\ [][NextBeacons]_vars

\* ------------------------------------------------------ LifecycleServer
\* Promise.any and Promise.allSettled, which Promise.all is compared with.
PromiseAny(ps) ==
    IF \E i \in DOMAIN ps : ps[i] = "resolved" THEN "fulfilled"
    ELSE IF \A i \in DOMAIN ps : ps[i] = "rejected" THEN "rejected"
    ELSE "pending"
PromiseAllSettled(ps) ==
    IF \A i \in DOMAIN ps : ps[i] # "pending" THEN "fulfilled" ELSE "pending"
\* Promise.all(this.promises): fulfilled once every promise is fulfilled,
\* rejected as soon as one of them is rejected, pending otherwise.
PromiseAll(ps) ==
    IF \E i \in DOMAIN ps : ps[i] = "rejected" THEN "rejected"
    ELSE IF \A i \in DOMAIN ps : ps[i] = "resolved" THEN "fulfilled"
    ELSE "pending"

\* The reason Promise.all rejects with when called on promises of which some
\* are already rejected: their reactions run in array order.
FirstRejected(ps) ==
    CHOOSE i \in DOMAIN ps :
        ps[i] = "rejected" /\ \A j \in 1..(i - 1) : ps[j] # "rejected"

\* setReady(true) up to its await, or to its end when there is none.
setReadyTrue ==
    /\ Running
    /\ Len(readyCalls) < MaxReadyCalls
    /\ IF Len(promises) > 0
       THEN /\ readyCalls' = Append(readyCalls,
                    IF PromiseAll(promises) = "rejected"
                    THEN [st |-> "failed", err |-> FirstRejected(promises)]
                    ELSE [st |-> "waiting", err |-> 0])
            /\ UNCHANGED isReady
       ELSE /\ readyCalls' = Append(readyCalls, [st |-> "done", err |-> 0])
            /\ isReady' = TRUE
    /\ UNCHANGED <<beacons, owner, dieCalls, dying, waiters, listeners,
                   isShuttingDown, promises, config, state, pc, timer,
                   cleanupCalls, triggers, exitCode,
                   emits, onShutdownResult, probe>>
    /\ lastSetReady' = "true"

\* setReady(true) after its await: `this.isReady = value`.
setReadyResume(c) ==
    /\ Running
    /\ c \in DOMAIN readyCalls
    /\ readyCalls[c].st = "waiting"
    /\ PromiseAll(promises) = "fulfilled"
    /\ isReady' = TRUE
    /\ readyCalls' = [readyCalls EXCEPT ![c].st = "done"]
    /\ UNCHANGED <<beacons, owner, dieCalls, dying, waiters, listeners,
                   isShuttingDown, promises, config, state, pc, timer,
                   cleanupCalls, triggers, exitCode,
                   emits, onShutdownResult, probe, lastSetReady>>

\* setReady(false): no await on this path.
setReadyFalse ==
    /\ Running
    /\ isReady' = FALSE
    /\ UNCHANGED <<beacons, owner, dieCalls, dying, waiters, listeners,
                   isShuttingDown, promises, readyCalls, config, state, pc, timer,
                   cleanupCalls, triggers, exitCode,
                   emits, onShutdownResult, probe>>
    /\ lastSetReady' = "false"

\* A startup promise of config.onReadyPromises is fulfilled.
resolvePromise(i) ==
    /\ Running
    /\ i \in DOMAIN promises
    /\ promises[i] = "pending"
    /\ promises' = [promises EXCEPT ![i] = "resolved"]
    /\ UNCHANGED <<beacons, owner, dieCalls, dying, waiters, listeners, isReady,
                   isShuttingDown, readyCalls, config, state, pc, timer,
                   cleanupCalls, triggers, exitCode,
                   emits, onShutdownResult, probe, lastSetReady>>

\* A startup promise is rejected: the Promise.all of every suspended
\* setReady(true) rejects with its reason, and the call throws.
rejectPromise(i) ==
    /\ Running
    /\ i \in DOMAIN promises
    /\ promises[i] = "pending"
    /\ promises' = [promises EXCEPT ![i] = "rejected"]
    /\ readyCalls' =
          [c \in DOMAIN readyCalls |->
              IF readyCalls[c].st = "waiting" /\ PromiseAll(promises') = "rejected"
              THEN [st |-> "failed", err |-> i]
              ELSE readyCalls[c]]
    /\ UNCHANGED <<beacons, owner, dieCalls, dying, waiters, listeners, isReady,
                   isShuttingDown, config, state, pc, timer, cleanupCalls,
                   triggers, exitCode,
                   emits, onShutdownResult, probe, lastSetReady>>

\* setShuttingDown(value), a public method.
setShuttingDown(value) ==
    /\ Running
    /\ isShuttingDown' = value
    /\ UNCHANGED <<beacons, owner, dieCalls, dying, waiters, listeners, isReady,
                   promises, readyCalls, config, state, pc, timer, cleanupCalls,
                   triggers, exitCode,
                   emits, onShutdownResult, probe, lastSetReady>>

\* ------------------------------------------------------------ healthChecks
\* A '/ready' that would look at isReady only, which '/ready' is compared with.
ReadyCheckOfReadyOnly ==
    IF ~isReady
    THEN [ok |-> FALSE, reason |-> "SERVER_IS_NOT_READY"]
    ELSE [ok |-> TRUE, reason |-> "SERVER_IS_READY"]

\* healthChecks['/health']: a rejected promise is a failed probe, and the
\* message of its Error is the reason.
HealthCheck ==
    IF state.isShuttingDown
    THEN [ok |-> FALSE, reason |-> "SERVER_IS_SHUTTING_DOWN"]
    ELSE IF ~isReady
    THEN [ok |-> FALSE, reason |-> "SERVER_IS_NOT_READY"]
    ELSE [ok |-> TRUE, reason |-> "SERVER_IS_READY"]

\* healthChecks['/live']
LiveCheck ==
    IF state.isShuttingDown
    THEN [ok |-> FALSE, reason |-> "SERVER_IS_SHUTTING_DOWN"]
    ELSE [ok |-> TRUE, reason |-> "SERVER_IS_NOT_SHUTTING_DOWN"]

\* healthChecks['/ready']
ReadyCheck ==
    IF state.isShuttingDown \/ ~isReady
    THEN [ok |-> FALSE, reason |-> "SERVER_IS_NOT_READY"]
    ELSE [ok |-> TRUE, reason |-> "SERVER_IS_READY"]

Paths == {"/health", "/live", "/ready"}

healthChecks(path) ==
    CASE path = "/health" -> HealthCheck
      [] path = "/live" -> LiveCheck
      [] path = "/ready" -> ReadyCheck

\* A probe request on one of the three paths is answered.
probeRequest(path) ==
    /\ Running
    /\ probe' = [path |-> path, sawShuttingDown |-> state.isShuttingDown,
                 sawReady |-> isReady, ok |-> healthChecks(path).ok,
                 reason |-> healthChecks(path).reason]
    /\ UNCHANGED <<beacons, owner, dieCalls, dying, waiters, listeners, isReady,
                   isShuttingDown, promises, readyCalls, config, state, pc, timer,
                   cleanupCalls, triggers, exitCode, onShutdownResult, emits,
                   lastSetReady>>

\* ------------------------------------------------------ shutdown sequence
\* A delay without the `|| 5000`, which the delay is compared with.
GraceDelayNoFallback(period, threshold) == period * threshold * MsPerSecond

\* beforeShutdown: `readinessPeriodSeconds * readinessFailureThreshold * 1000 || 5000`.
GraceDelay(period, threshold) ==
    IF period * threshold * MsPerSecond # 0
    THEN period * threshold * MsPerSecond
    ELSE FallbackDelayMs

\* The guard of the shutdown trigger: a trigger runs the sequence only while
\* state.isShuttingDown is false.
TriggerStarts == ~state.isShuttingDown

\* Options that would hand the user's onShutdown to createTerminus as well.
OnShutdownOptionAlsoPassed == TRUE

\* The options given to createTerminus hold onSignal and beforeShutdown; the
\* user's onShutdown is not passed on as an option of its own.
OnShutdownOptionPassed == FALSE

\* An onSignal that would not await the drain.
DrainNotAwaited(w) == TRUE

\* `await this.beaconManager.waitForBeacons()`: onSignal goes on once the
\* promise of its own call is resolved.
DrainAwaited(w) == waiters[w].st = "resolved"

\* An onSignal that would catch the rejection of onShutdown.
OnSignalSwallows(result) == "resolved"

\* `return onShutdown()`: the promise of onSignal settles as the promise
\* onShutdown returned does; nothing catches a rejection.
OnSignalOutcome(result) == result

\* A shutdown signal reaches the process.  The first one marks the state the
\* health checks read and calls beforeShutdown, whose executor either arms the
\* timer or resolves at once.
signal ==
    /\ Running
    /\ triggers < MaxTriggers
    /\ triggers' = triggers + 1
    /\ IF TriggerStarts
       THEN /\ state' = [state EXCEPT !.isShuttingDown = TRUE]
            /\ IF config.isKubernetes
               THEN /\ pc' = "graceDelay"
                    /\ timer' = GraceDelay(config.readinessPeriodSeconds,
                                           config.readinessFailureThreshold)
               ELSE /\ pc' = "signaled"
                    /\ timer' = -1
       ELSE UNCHANGED <<state, pc, timer>>
    /\ UNCHANGED <<beacons, owner, dieCalls, dying, waiters, listeners, isReady,
                   isShuttingDown, promises, readyCalls, config, cleanupCalls,
                   exitCode,
                   emits, onShutdownResult, probe, lastSetReady>>

\* The setTimeout of beforeShutdown fires and resolves its promise.
timerFires ==
    /\ pc = "graceDelay"
    /\ pc' = "signaled"
    /\ timer' = -1
    /\ UNCHANGED <<beacons, owner, dieCalls, dying, waiters, listeners, isReady,
                   isShuttingDown, promises, readyCalls, config, state,
                   cleanupCalls, triggers, exitCode,
                   emits, onShutdownResult, probe, lastSetReady>>

\* onSignal is called once the promise of beforeShutdown has resolved: the
\* grace delay comes before the drain.
OnSignalMayStart == pc = "signaled"

\* An onSignal that would also call setReady(false).
OnSignalUnready(ready) == FALSE

\* The readiness flag after onSignal: of the LifecycleServer's fields onSignal
\* writes isShuttingDown only, and isReady is what it was.
OnSignalReady(ready) == ready

\* onSignal up to its await: setShuttingDown(true), then waitForBeacons on the
\* LifecycleServer's own BeaconManager.
onSignal ==
    /\ OnSignalMayStart
    /\ isShuttingDown' = TRUE
    /\ isReady' = OnSignalReady(isReady)
    /\ waiters' = Append(waiters, NewWaiter("lifecycle", "onSignal"))
    /\ listeners' = WaitListeners("lifecycle")
    /\ pc' = "draining"
    /\ UNCHANGED <<beacons, owner, dieCalls, dying, promises, readyCalls,
                   config, state, timer, cleanupCalls, triggers, exitCode,
                   emits, onShutdownResult, probe, lastSetReady>>

\* onSignal after its await: `if (onShutdown) return onShutdown()`.
onSignalResume ==
    /\ pc = "draining"
    /\ \E w \in DOMAIN waiters : waiters[w].by = "onSignal" /\ DrainAwaited(w)
    /\ IF config.hasOnShutdown
       THEN /\ cleanupCalls' = cleanupCalls + 1
            /\ pc' = "cleaningUp"
       ELSE /\ pc' = "cleanedUp"
            /\ UNCHANGED cleanupCalls
    /\ UNCHANGED <<beacons, owner, dieCalls, dying, waiters, listeners, isReady,
                   isShuttingDown, promises, readyCalls, config, state, timer,
                   triggers, exitCode,
                   emits, onShutdownResult, probe, lastSetReady>>

\* The promise config.onShutdown returned is fulfilled, and with it onSignal's.
onShutdownResolves ==
    /\ pc = "cleaningUp"
    /\ pc' = "cleanedUp"
    /\ onShutdownResult' = "resolved"
    /\ UNCHANGED <<beacons, owner, dieCalls, dying, waiters, listeners, isReady,
                   isShuttingDown, promises, readyCalls, config, state, timer,
                   cleanupCalls, triggers, exitCode,
                   emits, probe, lastSetReady>>

\* The promise config.onShutdown returned is rejected: onSignal rejects to
\* its invoker, which ends the process with a failure code.
onShutdownRejects ==
    /\ pc = "cleaningUp"
    /\ onShutdownResult' = "rejected"
    /\ IF OnSignalOutcome("rejected") = "rejected"
       THEN /\ pc' = "complete"
            /\ exitCode' = 1
       ELSE /\ pc' = "cleanedUp"
            /\ UNCHANGED exitCode
    /\ UNCHANGED <<beacons, owner, dieCalls, dying, waiters, listeners, isReady,
                   isShuttingDown, promises, readyCalls, config, state, timer,
                   cleanupCalls, triggers,
                   emits, probe, lastSetReady>>

\* onSignal has settled without error: the onShutdown option, were one
\* passed, runs, and the process exits (useExit0).
exit ==
    /\ pc = "cleanedUp"
    /\ pc' = "complete"
    /\ exitCode' = 0
    /\ cleanupCalls' =
          IF OnShutdownOptionPassed /\ config.hasOnShutdown
          THEN cleanupCalls + 1 ELSE cleanupCalls
    /\ UNCHANGED <<beacons, owner, dieCalls, dying, waiters, listeners, isReady,
                   isShuttingDown, promises, readyCalls, config, state, timer,
                   triggers,
                   emits, onShutdownResult, probe, lastSetReady>>

\* --------------------------------------------------------- specifications
\* The readiness flag and the startup promises on their own.
InitReady ==
    /\ InitBeaconManager
    /\ \E n \in 0..MaxPromises : InitLifecycle(n)
    /\ InitTerminus
    /\ config = DefaultConfig

NextReady ==
    \/ setReadyTrue
    \/ \E c \in 1..MaxReadyCalls : setReadyResume(c)
    \/ setReadyFalse
    \/ \E i \in 1..MaxPromises : resolvePromise(i)
    \/ \E i \in 1..MaxPromises : rejectPromise(i)

SpecReady == InitReady /\ [][NextReady]_vars

\* The shutdown sequence with the beacons of both BeaconManager instances.
InitShutdown ==
    /\ InitBeaconManager
    /\ InitLifecycle(0)
    /\ InitTerminus
    /\ config \in Configs

NextShutdown ==
    \/ \E t \in Trackers : createBeacon(t)
    \/ \E b \in 1..MaxBeacons : die(b)
    \/ \E v \in BOOLEAN : setShuttingDown(v)
    \/ signal
    \/ timerFires
    \/ onSignal
    \/ onSignalResume
    \/ onShutdownResolves
    \/ onShutdownRejects
    \/ exit

SpecShutdown == InitShutdown /\ [][NextShutdown]_vars

\* The probes with the readiness flag and the shutdown sequence; no beacons.
InitProbes ==
    /\ InitBeaconManager
    /\ \E n \in 0..1 : InitLifecycle(n)
    /\ InitTerminus
    /\ config \in Configs

NextProbes ==
    \/ \E path \in Paths : probeRequest(path)
    \/ setReadyTrue
    \/ \E c \in 1..MaxReadyCalls : setReadyResume(c)
    \/ setReadyFalse
    \/ \E i \in 1..MaxPromises : resolvePromise(i)
    \/ \E i \in 1..MaxPromises : rejectPromise(i)
    \/ \E v \in BOOLEAN : setShuttingDown(v)
    \/ signal
    \/ timerFires
    \/ onSignal
    \/ onSignalResume
    \/ onShutdownResolves
    \/ onShutdownRejects
    \/ exit

SpecProbes == InitProbes /\ [][NextProbes]_vars

\* The shutdown sequence over a range of readiness periods and thresholds.
DelayConfigs ==
    [isKubernetes : BOOLEAN, hasOnShutdown : BOOLEAN,
     readinessPeriodSeconds : 0..MaxPeriod,
     readinessFailureThreshold : 0..MaxThreshold]

InitDelay ==
    /\ InitBeaconManager
    /\ InitLifecycle(0)
    /\ InitTerminus
    /\ config \in DelayConfigs

NextDelay ==
    \/ signal
    \/ timerFires
    \/ onSignal
    \/ onSignalResume
    \/ onShutdownResolves
    \/ onShutdownRejects
    \/ exit

SpecDelay == InitDelay /\ [][NextDelay]_vars

\* The shutdown sequence with the LifecycleServer's own tracker.
InitDrain ==
    /\ InitBeaconManager
    /\ InitLifecycle(0)
    /\ InitTerminus
    /\ config \in Configs

NextDrain ==
    \/ createBeacon("lifecycle")
    \/ \E b \in 1..MaxBeacons : die(b)
    \/ dieResume
    \/ signal
    \/ timerFires
    \/ onSignal
    \/ onSignalResume
    \/ onShutdownResolves
    \/ onShutdownRejects
    \/ exit

SpecDrain == InitDrain /\ [][NextDrain]_vars

\* The event loop runs every continuation that is ready and fires every armed
\* timer, and the promise the user's onShutdown returned settles; signals,
\* createBeacon and die are up to the environment.
FairSpecDrain ==
    /\ SpecDrain
    /\ WF_vars(timerFires)
    /\ WF_vars(onSignal)
    /\ WF_vars(onSignalResume)
    /\ WF_vars(onShutdownResolves \/ onShutdownRejects)
    /\ WF_vars(exit)

\* Every operation of the LifecycleServer, its BeaconManager and the shutdown
\* sequence together, with one startup promise and caps of their own on the
\* calls the application makes.
InitFrame ==
    /\ InitBeaconManager
    /\ InitLifecycle(1)
    /\ InitTerminus
    /\ config \in {c \in Configs : /\ c.hasOnShutdown
                                  /\ c.readinessPeriodSeconds = DefaultPeriodSeconds}

NextFrame ==
    \/ (Len(owner) < FrameBeacons /\ createBeacon("lifecycle"))
    \/ \E b \in 1..FrameBeacons : (TotalDies < FrameDies /\ die(b))
    \/ dieResume
    \/ (Cardinality(AppWaiters) < FrameWaiters /\ waitForBeacons("lifecycle"))
    \/ (Len(readyCalls) < FrameReadyCalls /\ setReadyTrue)
    \/ \E c \in 1..FrameReadyCalls : setReadyResume(c)
    \/ setReadyFalse
    \/ resolvePromise(1)
    \/ rejectPromise(1)
    \/ \E value \in BOOLEAN : setShuttingDown(value)
    \/ (triggers < FrameTriggers /\ signal)
    \/ timerFires
    \/ onSignal
    \/ onSignalResume
    \/ onShutdownResolves
    \/ onShutdownRejects
    \/ exit

SpecFrame == InitFrame /\ [][NextFrame]_vars

\* ================================================================= claims
Created(t) == {b \in DOMAIN owner : owner[b] = t}
Retired(t) == {b \in Created(t) : dieCalls[b] >= 1}
Live(t) == {beacons[t][i] : i \in 1..Len(beacons[t])}

\* C1: a waitForBeacons call made at count 0 is resolved by the call itself;
\* one made at count > 0 is pending after the call, and a pending call
\* becomes resolved only in a step that ends with count 0 on its tracker,
\* whatever createBeacon and die calls interleave.
C1_WaitResolvesOnlyAtZero ==
    [][/\ \A w \in DOMAIN waiters :
            (waiters[w].st = "pending" /\ waiters'[w].st = "resolved")
                => Len(beacons'[waiters[w].t]) = 0
       /\ \A w \in (DOMAIN waiters') \ (DOMAIN waiters) :
            /\ Len(beacons[waiters'[w].t]) = 0 => waiters'[w].st = "resolved"
            /\ Len(beacons[waiters'[w].t]) > 0 => waiters'[w].st = "pending"
      ]_vars

\* C1 witness: one call made at count 0 and one made at count > 0 have both
\* resolved.
C1_Witness ==
    /\ \E w \in DOMAIN waiters : waiters[w].n = 0 /\ waiters[w].st = "resolved"
    /\ \E w \in DOMAIN waiters :
          /\ waiters[w].n > 0 /\ waiters[w].st = "resolved"
          /\ Len(owner) > waiters[w].n

\* C2 (as claimed): the count is the number of creates minus the number of
\* handles retired at least once, and never negative.
C2_CountIsCreatesMinusRetired ==
    \A t \in Trackers :
        /\ getBeaconsCount(t) = Cardinality(Created(t)) - Cardinality(Retired(t))
        /\ getBeaconsCount(t) >= 0

\* C3 (as claimed): die() on a handle whose beacon is no longer in the live
\* collection leaves the collection as it was.
C3_DieOfRetiredIsNoOp ==
    [][\A b \in DOMAIN owner :
            (dieCalls'[b] = dieCalls[b] + 1 /\ b \notin Live(owner[b]))
                => beacons' = beacons
      ]_vars

\* C4 (as claimed): onShutdown is not invoked while a beacon created through
\* the exported singleton beaconManager is still live.
C4_SingletonBeaconsHoldShutdown ==
    [][cleanupCalls' > cleanupCalls => Live("singleton") = {}]_vars

\* The promise of the waitForBeacons call that onSignal made.
OnSignalWaiters == {w \in DOMAIN waiters : waiters[w].by = "onSignal"}

\* C5: onShutdown is invoked, and the sequence enters cleaning-up, only from
\* draining and only in a step that starts with the waitForBeacons promise of
\* onSignal already resolved.
C5_CleanupAfterDrain ==
    [][(cleanupCalls' > cleanupCalls \/ (pc' = "cleaningUp" /\ pc # "cleaningUp"))
          => /\ pc = "draining"
             /\ \E w \in OnSignalWaiters : waiters[w].st = "resolved"
      ]_vars

\* C5 witness: onShutdown is running after a drain that had to wait for a
\* beacon to die.
C5_Witness ==
    /\ pc = "cleaningUp"
    /\ cleanupCalls = 1
    /\ \E w \in OnSignalWaiters : waiters[w].n > 0 /\ waiters[w].st = "resolved"

\* C6 (as claimed): while the grace delay is in progress,
\* isServerShuttingDown() returns true.
C6_FlagSetBeforeGraceDelay == pc = "graceDelay" => isShuttingDown

\* C7 (as claimed): once isServerShuttingDown() returns true it returns true
\* ever after.
C7_ShuttingDownMonotonic == [][isShuttingDown => isShuttingDown']_vars

\* C8: with startup promises configured, getReady() is true only in states
\* where every one of them has resolved.
C8_ReadyOnlyAfterAllResolved ==
    (Len(promises) > 0 /\ isReady) => \A i \in DOMAIN promises : promises[i] = "resolved"

\* C8 witness: two startup promises, a setReady(true) call that waited for
\* them, and ready true.
C8_Witness ==
    /\ Len(promises) >= 2
    /\ isReady
    /\ \E c \in DOMAIN readyCalls : readyCalls[c].st = "done"

\* C9: once a startup promise has rejected, ready is false and every
\* setReady(true) call has failed with the reason of a rejected promise.
C9_RejectionFailsSetReady ==
    (\E i \in DOMAIN promises : promises[i] = "rejected")
        => /\ ~isReady
           /\ \A c \in DOMAIN readyCalls :
                /\ readyCalls[c].st = "failed"
                /\ readyCalls[c].err \in DOMAIN promises
                /\ promises[readyCalls[c].err] = "rejected"

\* C9 witness: one startup promise resolved, two rejected, and two calls
\* failed with different reasons: one was suspended when the first rejection
\* came, the other was made after both.
C9_Witness ==
    /\ \E i \in DOMAIN promises : promises[i] = "resolved"
    /\ \E c, d \in DOMAIN readyCalls :
          /\ readyCalls[c].st = "failed" /\ readyCalls[d].st = "failed"
          /\ readyCalls[c].err # readyCalls[d].err

\* The order of the phases of the shutdown sequence.
PhaseRank(p) ==
    CASE p = "idle" -> 0
      [] p = "graceDelay" -> 1
      [] p = "signaled" -> 2
      [] p = "draining" -> 3
      [] p = "cleaningUp" -> 4
      [] p = "cleanedUp" -> 5
      [] p = "complete" -> 6

\* C10: however many triggers arrive, onShutdown is invoked at most once and
\* the sequence never goes back to an earlier phase.
C10_TriggerIdempotent ==
    /\ [](cleanupCalls <= 1)
    /\ [][PhaseRank(pc') >= PhaseRank(pc)]_vars

\* C10 witness: two triggers, the second after the first had started the
\* sequence, and onShutdown invoked once.
C10_Witness ==
    /\ triggers >= 2
    /\ cleanupCalls = 1
    /\ pc = "complete"

\* C11: once the promise of onShutdown has rejected, the rejection has gone
\* through onSignal to its invoker (the process ended with the failure
\* code), the sequence is complete, and onShutdown was invoked once only.
C11_RejectionSurfacedAndComplete ==
    onShutdownResult = "rejected"
        => /\ pc = "complete"
           /\ exitCode = 1
           /\ cleanupCalls = 1

\* C11 witness: onShutdown rejected in a run that saw a second trigger.
C11_Witness ==
    /\ onShutdownResult = "rejected"
    /\ pc = "complete"
    /\ triggers >= 2

\* C12 (as claimed): /health and /ready succeed exactly when
\* isServerShuttingDown() is false and ready is true, /live exactly when
\* isServerShuttingDown() is false.
C12_ProbesFollowLifecycleFlag ==
    [][probe' # probe =>
          /\ probe'.path \in {"/health", "/ready"}
                => (probe'.ok <=> (~isShuttingDown /\ isReady))
          /\ probe'.path = "/live" => (probe'.ok <=> ~isShuttingDown)
      ]_vars

\* C13 (as claimed): a failing /ready gives the reason /health gives in the
\* same state.
C13_ReadyReasonSameAsHealth ==
    [][(probe' # probe /\ probe'.path = "/ready" /\ ~probe'.ok)
          => probe'.reason = HealthCheck.reason
      ]_vars

\* C13 (amended): /ready succeeds exactly when /health does in the same
\* state, and a failing /ready always gives SERVER_IS_NOT_READY: the reason
\* of /health when shutdown has not started, and not the
\* SERVER_IS_SHUTTING_DOWN of /health once it has.
C13_ReadyAgreesOnOutcomeOnly ==
    [][(probe' # probe /\ probe'.path = "/ready")
          => /\ probe'.ok <=> HealthCheck.ok
             /\ ~probe'.ok => probe'.reason = "SERVER_IS_NOT_READY"
             /\ (~probe'.ok /\ ~state.isShuttingDown)
                   => probe'.reason = HealthCheck.reason
             /\ (~probe'.ok /\ state.isShuttingDown)
                   => HealthCheck.reason = "SERVER_IS_SHUTTING_DOWN"
      ]_vars

\* C13 witness: /ready has failed with SERVER_IS_NOT_READY while ready is
\* true and shutdown has started.
C13_Witness ==
    /\ probe.path = "/ready"
    /\ ~probe.ok
    /\ probe.reason = "SERVER_IS_NOT_READY"
    /\ probe.sawReady
    /\ probe.sawShuttingDown

\* C14: the step that starts the sequence arms a timer of
\* period * threshold * 1000 ms when orchestrator-managed and that product is
\* not zero, of 5000 ms when orchestrator-managed and the product is zero,
\* and arms no timer (and enters no grace delay) when not orchestrator-managed;
\* a timer is pending exactly during the grace delay.
C14_GraceDelayValue ==
    /\ [][(pc = "idle" /\ pc' # "idle") =>
            LET product == config.readinessPeriodSeconds
                               * config.readinessFailureThreshold
            IN  IF config.isKubernetes
                THEN /\ pc' = "graceDelay"
                     /\ product # 0 => timer' = product * 1000
                     /\ product = 0 => timer' = 5000
                ELSE /\ pc' = "signaled"
                     /\ timer' = -1
         ]_vars
    /\ [](pc = "graceDelay" <=> timer # -1)

\* C14 witness: a grace delay of period * threshold * 1000 ms, with a period
\* and a threshold of 2 or more, is in progress.
C14_Witness ==
    /\ pc = "graceDelay"
    /\ config.readinessPeriodSeconds >= 2
    /\ config.readinessFailureThreshold >= 2
    /\ timer = config.readinessPeriodSeconds * config.readinessFailureThreshold * 1000

\* C15: with orchestrator mode off no grace delay is ever entered and no timer
\* armed; an onSignal that starts at count 0 has its wait resolved by the call
\* itself, without subscribing; the sequence then reaches complete; and
\* onShutdown, when configured, has been invoked exactly once at complete and
\* never more than once.
C15_NoBeaconsNoDelayCompletes ==
    /\ [](~config.isKubernetes => (pc # "graceDelay" /\ timer = -1))
    /\ [][(pc = "signaled" /\ pc' = "draining" /\ Len(beacons["lifecycle"]) = 0) =>
            \A w \in DOMAIN waiters' :
                waiters'[w].by = "onSignal" =>
                    /\ waiters'[w].st = "resolved"
                    /\ w \notin listeners'["lifecycle"]
         ]_vars
    /\ [](cleanupCalls <= 1)
    /\ []((pc = "complete" /\ config.hasOnShutdown) => cleanupCalls = 1)
    /\ (~config.isKubernetes /\ pc = "signaled") ~> (pc = "draining")
    /\ (/\ ~config.isKubernetes
        /\ pc = "draining"
        /\ \A w \in OnSignalWaiters : waiters[w].n = 0) ~> (pc = "complete")

\* C15 witness: orchestrator mode off, no beacon was ever created, the drain
\* wait saw count 0, and the sequence is complete with one onShutdown call.
C15_Witness ==
    /\ ~config.isKubernetes
    /\ config.hasOnShutdown
    /\ Len(owner) = 0
    /\ OnSignalWaiters # {}
    /\ \A w \in OnSignalWaiters : waiters[w].n = 0
    /\ pc = "complete"
    /\ exitCode = 0
    /\ cleanupCalls = 1

C17_ListenersArePendingWaiters ==
    /\ [](listeners["lifecycle"] =
            {w \in DOMAIN waiters : /\ waiters[w].t = "lifecycle"
                                    /\ waiters[w].st = "pending"})
    /\ [](Len(beacons["lifecycle"]) = 0 => listeners["lifecycle"] = {})
    /\ [][(Len(waiters') > Len(waiters) /\ Len(beacons["lifecycle"]) = 0) =>
            /\ waiters'[Len(waiters')].st = "resolved"
            /\ listeners' = listeners]_vars
    /\ [][\A w \in DOMAIN waiters :
            /\ w \in DOMAIN waiters'
            /\ waiters[w].st = "resolved" => waiters'[w] = waiters[w]]_vars

\* C17 witness: two calls were pending together at count > 0, both are
\* resolved and no listener is left.
C17_Witness ==
    /\ Len(waiters) >= 2
    /\ \A w \in 1..2 : waiters[w].n > 0 /\ waiters[w].st = "resolved"
    /\ listeners["lifecycle"] = {}

\* C18: a die call suspends exactly once, and when it leaves count 0 every
\* waiter of the tracker is resolved by the end of that same step; the
\* suspended die completes in a later step of its own, which touches neither
\* the beacons nor the waiters; so while a die that reached count 0 is still
\* suspended no waiter is pending.
C18_WaitersResolvedBeforeDieResumes ==
    /\ [][dieCalls' # dieCalls /\ Len(dieCalls') = Len(dieCalls) =>
            /\ dying' = dying + 1
            /\ Len(beacons'["lifecycle"]) = 0 =>
                 \A w \in DOMAIN waiters' :
                     waiters'[w].t = "lifecycle" => waiters'[w].st = "resolved"
         ]_vars
    /\ [][dying' < dying =>
            /\ dying' = dying - 1
            /\ UNCHANGED <<beacons, owner, dieCalls, waiters, listeners, emits>>
         ]_vars
    /\ [](dying > 0 /\ Len(beacons["lifecycle"]) = 0 =>
            \A w \in DOMAIN waiters : waiters[w].st = "resolved")

\* C18 witness: a die call that brought the count to 0 is still suspended and
\* a waiter that was pending at count > 0 is already resolved.
C18_Witness ==
    /\ dying = 1
    /\ TotalDies = 1
    /\ Len(beacons["lifecycle"]) = 0
    /\ \E w \in DOMAIN waiters : waiters[w].n > 0 /\ waiters[w].st = "resolved"

\* C19: a pending waiter becomes resolved only in a step after which every
\* beacon created on the tracker has had its die() called at least once.
C19_NoResolveBeforeEveryBeaconDied ==
    [][\A w \in DOMAIN waiters :
          (waiters[w].st = "pending" /\ waiters'[w].st = "resolved") =>
              \A b \in DOMAIN owner' :
                  owner'[b] = waiters[w].t => dieCalls'[b] >= 1
      ]_vars

\* C20: onShutdown is invoked only in a step that starts with no live beacon
\* on the LifecycleServer's tracker.
C20_CleanupStartsAtCountZero ==
    [][cleanupCalls' > cleanupCalls => Len(beacons["lifecycle"]) = 0]_vars

\* C21: the value of ready follows the most recently issued setReady call:
\* once setReady(false) is the latest call ready is false, whatever earlier
\* suspended setReady(true) calls do when the startup promises resolve; and
\* once setReady(true) is the latest call and every setReady(true) call has
\* completed, ready is true.
C21_LastSetReadyWins ==
    /\ lastSetReady = "false" => ~isReady
    /\ (/\ lastSetReady = "true"
        /\ \A c \in DOMAIN readyCalls : readyCalls[c].st = "done") => isReady

\* C22: a step of the shutdown sequence, or one that changes shuttingDown,
\* leaves ready, the startup promises and the setReady calls as they were; a
\* step of setReady leaves shuttingDown, the shutdown sequence and the whole
\* beacon state as they were; and a step of createBeacon, die or
\* waitForBeacons leaves ready and shuttingDown as they were.
C22_SubsystemsIndependent ==
    [][/\ (\/ <<state, pc, timer, cleanupCalls, triggers, exitCode,
               onShutdownResult>>' #
              <<state, pc, timer, cleanupCalls, triggers, exitCode,
               onShutdownResult>>
           \/ isShuttingDown' # isShuttingDown)
          => UNCHANGED <<isReady, promises, readyCalls, lastSetReady>>
       /\ <<isReady, readyCalls, lastSetReady>>' # <<isReady, readyCalls, lastSetReady>>
          => UNCHANGED <<isShuttingDown, state, pc, timer, cleanupCalls, triggers,
                         exitCode, onShutdownResult, beacons, owner, dieCalls,
                         dying, waiters, listeners, emits>>
       /\ (\/ <<beacons, owner, dieCalls, dying>>' # <<beacons, owner, dieCalls, dying>>
           \/ (Len(waiters') > Len(waiters) /\ pc' = pc))
          => UNCHANGED <<isReady, promises, readyCalls, lastSetReady,
                         isShuttingDown, state>>
      ]_vars

\* C22 witness: ready was set to true after waiting for the startup promise,
\* a beacon was created and retired, the application waited for the beacons,
\* and the shutdown sequence ran to its end with ready still true.
C22_Witness ==
    /\ isReady
    /\ \E c \in DOMAIN readyCalls : readyCalls[c].st = "done"
    /\ TotalDies >= 1
    /\ AppWaiters # {}
    /\ isShuttingDown
    /\ pc = "complete"

\* C23: when every beacon ever created on the LifecycleServer's tracker was
\* live at the moment onSignal began to wait (so none was created since),
\* the shutdown sequence leaves draining only after die() has been called on
\* each of them: while one of them is never retired it stays in draining.
C23_DrainingHeldByUnretiredBeacon ==
    [][(/\ pc = "draining"
        /\ pc' # "draining"
        /\ \E w \in OnSignalWaiters :
               waiters[w].n = Cardinality(Created("lifecycle")))
          => \A b \in Created("lifecycle") : dieCalls[b] >= 1
      ]_vars
====
